---- MODULE Spec2Model ----
(***************************************************************************)
(* Model of state.py: the Updater / Updatable capability protocol, the     *)
(* State merge operator, StateDict / View recursive mapping states and the *)
(* History append log.                                                     *)
(*                                                                         *)
(* Python objects live in a heap (address -> object) so that aliasing,     *)
(* in-place mutation and copying are distinguishable.  A value stored      *)
(* under a key is either an int (atomic) or a reference to a heap object.  *)
(***************************************************************************)
EXTENDS Integers, Sequences, FiniteSets, TLC

\* ---------------------------------------------------------------- bounds
NumKeys == 2        \* distinct dictionary keys
MaxAtom == 2        \* atomic (int) values 1..MaxAtom
NumLeaf == 2        \* nested plain dicts available as values
MaxLog == 3         \* longest History list explored
MaxItemLen == 2     \* longest list handed to History.update / push

Keys == 1..NumKeys
Atoms == 1..MaxAtom
Leaves == 1..NumLeaf
SAddr == NumLeaf + 1        \* the mapping state operated on (StateDict or View)
OAddr == NumLeaf + 2        \* a second mapping, used as incoming argument
RAddr == NumLeaf + 3        \* where a freshly allocated object is placed
Addrs == 1..RAddr
Live == Addrs \ {RAddr}

\* ---------------------------------------------------------------- values
IntVal(n) == [t |-> "int", v |-> n]
RefVal(a) == [t |-> "ref", v |-> a]
Absent == [t |-> "absent", v |-> 0]

NoItems == [k \in Keys |-> Absent]
Free == [kind |-> "free", items |-> NoItems]

KeysOf(obj) == {k \in Keys : obj.items[k] # Absent}

\* type(value) as the class name of the object the value denotes
TypeOf(h, val) == IF val.t = "int" THEN "int" ELSE h[val.v].kind

\* All orders in which the keys of a mapping can be iterated.
Orders(S) == {o \in [1..Cardinality(S) -> S] : \A i, j \in 1..Cardinality(S) : o[i] = o[j] => i = j}

\* ------------------------------------------------- capability protocol
\* Updatable.__subclasshook__: a class is Updatable iff some class of its
\* MRO defines "update".  dict, its subclasses and History do; int does not.
Updatable_subclasshook(C) == C \in {"dict", "StateDict", "View", "History"}

\* State.is_updatable: issubclass(C, Updatable)
is_updatable(C) == Updatable_subclasshook(C)

\* Updater.is_atomic: not cls.is_updatable(C)
is_atomic(C) == ~ is_updatable(C)

\* ------------------------------------------------------------ StateDict
\* dict.update(copy, other) as called from State.__or__: every key of the
\* argument is assigned, nothing is merged; a non-mapping raises TypeError.
Dict_update(h, self, arg) ==
    IF arg.t # "ref" THEN [heap |-> h, raised |-> TRUE]
    ELSE [heap |-> [h EXCEPT ![self].items =
                       [k \in Keys |-> IF h[arg.v].items[k] # Absent
                                       THEN h[arg.v].items[k] ELSE @[k]]],
          raised |-> FALSE]

\* Updatable.update: the abstract method's body is `pass`.
Updatable_update(h, first, second) == [heap |-> h, raised |-> FALSE]

\* Variant: the call is first.update(second), merging in place.
State_update_item_inplace(h, first, second) ==
    IF first.t # "ref" THEN [heap |-> h, raised |-> TRUE]
    ELSE Dict_update(h, first.v, second)

\* State.update_item: super().update(first, second).  In the MRO of
\* StateDict / View the next class after State that defines `update` is
\* Updatable, so the call runs Updatable.update as a plain function.
State_update_item(h, first, second) == Updatable_update(h, first, second)

\* self[key] = val
Dict_setitem(h, self, key, val) == [h EXCEPT ![self].items[key] = val]

\* Variant: View does not override the hook.
StateDict_add_item_always(h, self, key, val) == Dict_setitem(h, self, key, val)

\* Variant: the hook is a no-op for every class.
StateDict_add_item_never(h, self, key, val) == h

\* StateDict._add_item, overridden by View._add_item (pass)
StateDict_add_item(h, self, key, val) ==
    IF h[self].kind = "View" THEN h ELSE Dict_setitem(h, self, key, val)

\* StateDict._update_item: try update_item; on TypeError assign.
StateDict_update_item(h, self, key, val) ==
    LET r == State_update_item(h, h[self].items[key], val)
    IN IF r.raised THEN Dict_setitem(h, self, key, val) ELSE r.heap

\* StateDict.__update__: the loop over the keys of `other`, visited in `order`.
RECURSIVE StateDict__update__(_, _, _, _)
StateDict__update__(h, self, other, order) ==
    IF order = <<>> THEN h
    ELSE LET key == Head(order)
             h1 == IF h[self].items[key] # Absent
                   THEN StateDict_update_item(h, self, key, other[key])
                   ELSE StateDict_add_item(h, self, key, other[key])
         IN StateDict__update__(h1, self, other, Tail(order))

\* Variant: a non-mapping argument is taken as the empty mapping.
Construct_lenient(h, arg) ==
    IF arg.t = "ref" THEN [raised |-> FALSE, items |-> h[arg.v].items]
    ELSE [raised |-> FALSE, items |-> NoItems]

\* self.__class__(*args, **kwargs): the dict constructor.  A mapping argument
\* gives a new container with the same key/value pairs (values shared); an
\* int is not iterable and raises TypeError.
Construct(h, arg) ==
    IF arg.t = "ref" THEN [raised |-> FALSE, items |-> h[arg.v].items]
    ELSE [raised |-> TRUE, items |-> NoItems]

\* StateDict.update
StateDict_update(h, self, arg, order) ==
    LET other == Construct(h, arg)
    IN IF other.raised THEN [heap |-> h, raised |-> TRUE]
       ELSE [heap |-> StateDict__update__(h, self, other.items, order), raised |-> FALSE]

\* Variant: copy returns the container itself.
StateDict_copy_alias(h, self) == [heap |-> h, addr |-> self]

\* StateDict.copy: super().copy() is dict.copy, which returns a new plain
\* dict holding the same values.
StateDict_copy(h, self) ==
    [heap |-> [h EXCEPT ![RAddr] = [kind |-> "dict", items |-> h[self].items]],
     addr |-> RAddr]

\* State.__or__: copy = self.copy(); copy.update(other); return copy.  The
\* copy is a plain dict, so copy.update is dict.update.  (On interpreters
\* where dict defines __or__ itself, it precedes State in the MRO and
\* returns the same new plain dict.)  A raised TypeError leaves nothing behind.
State_or(h, self, arg) ==
    LET c == StateDict_copy(h, self)
        u == Dict_update(c.heap, c.addr, arg)
    IN IF u.raised THEN [heap |-> h, raised |-> TRUE, res |-> 0]
       ELSE [heap |-> u.heap, raised |-> FALSE, res |-> c.addr]

\* -------------------------------------------------------------- History
\* Values handed to a History: an int, or a list of ints.
LInt(n) == [t |-> "int", v |-> n, elems |-> <<>>]
LList(s) == [t |-> "list", v |-> 0, elems |-> s]
NoItem == [t |-> "none", v |-> 0, elems |-> <<>>]

\* History.update: self.extend(other).  list.extend iterates its argument;
\* an int is not iterable and raises TypeError before anything is appended.
History_update(l, other) ==
    IF other.t = "list"
    THEN [log |-> l \o [i \in 1..Len(other.elems) |-> LInt(other.elems[i])], raised |-> FALSE]
    ELSE [log |-> l, raised |-> TRUE]

\* History.push: self.update(item)
History_push(l, it) == History_update(l, it)

\* ---------------------------------------------------------------- state
VARIABLES heap, pre, last, log, prelog, item
vars == <<heap, pre, last, log, prelog, item>>

Vals == {IntVal(n) : n \in Atoms} \cup {RefVal(a) : a \in Leaves}
\* Arguments of update and |: any live mapping, or an int (not a mapping).
Args == {IntVal(1)} \cup {RefVal(a) : a \in Live}

Start == [op |-> "init", arg |-> Absent, key |-> 0, err |-> "none", res |-> 0]

\* The heap after construction.  Leaf i is the plain dict {1: a, ..., i: a}
\* with a = i (wrapped into Atoms).
LeafObj(i) ==
    [kind |-> "dict",
     items |-> [k \in Keys |-> IF k <= i THEN IntVal(((i - 1) % MaxAtom) + 1) ELSE Absent]]

\* Every value a key can hold, in a fixed order: absent, the ints, the leaves.
NumVals == 1 + MaxAtom + NumLeaf
ValSeq ==
    [i \in 1..NumVals |->
        IF i = 1 THEN Absent
        ELSE IF i <= 1 + MaxAtom THEN IntVal(i - 1)
        ELSE RefVal(i - 1 - MaxAtom)]

\* The incoming mapping O holds consecutive values of ValSeq starting at `shift`.
ArgItems(shift) == [k \in Keys |-> ValSeq[((k + shift) % NumVals) + 1]]

\* S is a StateDict or a View built from arbitrary key/value pairs; O is a
\* mapping of the same class.
Init ==
    /\ \E sk \in {"StateDict", "View"}, si \in [Keys -> Vals \cup {Absent}],
          shift \in 0..(NumVals - 1) :
          heap = [a \in Addrs |->
                    IF a \in Leaves THEN LeafObj(a)
                    ELSE IF a = SAddr THEN [kind |-> sk, items |-> si]
                    ELSE IF a = OAddr THEN [kind |-> sk, items |-> ArgItems(shift)]
                    ELSE Free]
    /\ pre = heap
    /\ last = Start
    /\ log = <<>>
    /\ prelog = <<>>
    /\ item = NoItem

\* The object returned by the previous `|` is dropped before the next call.
Drop(h) == [h EXCEPT ![RAddr] = Free]

\* S.update(arg)
Update ==
    \E arg \in Args :
      \E order \in Orders(IF arg.t = "ref" THEN KeysOf(heap[arg.v]) ELSE {}) :
        LET r == StateDict_update(Drop(heap), SAddr, arg, order)
        IN /\ pre' = Drop(heap)
           /\ heap' = r.heap
           /\ last' = [op |-> "update", arg |-> arg, key |-> 0,
                       err |-> IF r.raised THEN "TypeError" ELSE "none", res |-> 0]
           /\ UNCHANGED <<log, prelog, item>>

\* C = S | arg
Or ==
    \E arg \in Args :
        LET r == State_or(Drop(heap), SAddr, arg)
        IN /\ pre' = Drop(heap)
           /\ heap' = r.heap
           /\ last' = [op |-> "or", arg |-> arg, key |-> 0,
                       err |-> IF r.raised THEN "TypeError" ELSE "none", res |-> r.res]
           /\ UNCHANGED <<log, prelog, item>>

\* S[key] = val, for an int val
SetItem ==
    \E key \in Keys, val \in {IntVal(n) : n \in Atoms} :
        /\ pre' = Drop(heap)
        /\ heap' = Dict_setitem(Drop(heap), SAddr, key, val)
        /\ last' = [op |-> "setitem", arg |-> val, key |-> key, err |-> "none", res |-> 0]
        /\ UNCHANGED <<log, prelog, item>>

Next == Update \/ Or \/ SetItem

Spec == Init /\ [][Next]_vars

\* ------------------------------------------------- the History machine
ListsOfAtoms == UNION {[1..n -> Atoms] : n \in 0..MaxItemLen}
LogArgs == {LInt(n) : n \in Atoms} \cup {LList(s) : s \in ListsOfAtoms}

\* A History seeded from an initial list; no mapping state is involved.
InitLog ==
    /\ heap = [a \in Addrs |-> Free]
    /\ pre = heap
    /\ last = Start
    /\ \E s \in ListsOfAtoms : log = [i \in 1..Len(s) |-> LInt(s[i])]
    /\ prelog = log
    /\ item = NoItem

\* log.update(other)
LogUpdate ==
    \E other \in LogArgs :
        LET r == History_update(log, other)
        IN /\ Len(r.log) <= MaxLog
           /\ prelog' = log
           /\ log' = r.log
           /\ item' = other
           /\ last' = [op |-> "log_update", arg |-> Absent, key |-> 0,
                       err |-> IF r.raised THEN "TypeError" ELSE "none", res |-> 0]
           /\ UNCHANGED <<heap, pre>>

\* log.push(it)
Push ==
    \E it \in LogArgs :
        LET r == History_push(log, it)
        IN /\ Len(r.log) <= MaxLog
           /\ prelog' = log
           /\ log' = r.log
           /\ item' = it
           /\ last' = [op |-> "push", arg |-> Absent, key |-> 0,
                       err |-> IF r.raised THEN "TypeError" ELSE "none", res |-> 0]
           /\ UNCHANGED <<heap, pre>>

NextLog == LogUpdate \/ Push

SpecLog == InitLog /\ [][NextLog]_vars

\* ================================================================ claims
\* Shorthands for the last call: S before and after, the incoming mapping.
OldS == pre[SAddr]
NewS == heap[SAddr]
IsMappingCall(op) == last.op = op /\ last.arg.t = "ref"
Incoming == pre[last.arg.v]

\* C1: after S.update(O), a key present in both whose existing value is
\* atomic holds exactly the incoming value O[k].
C1_AtomicOverwritten ==
    IsMappingCall("update") =>
        \A k \in KeysOf(OldS) \cap KeysOf(Incoming) :
            is_atomic(TypeOf(pre, OldS.items[k])) => NewS.items[k] = Incoming.items[k]

\* C2: after S.update(O), a key present in both whose existing value is
\* mergeable still refers to the same object, and that object has absorbed
\* the incoming mapping O[k] (every key of O[k] is in it with O[k]'s value).
\* Stated for updates in which only one incoming value is a mapping.
C2_MergedInPlace ==
    IsMappingCall("update") /\ Cardinality({j \in Keys : Incoming.items[j].t = "ref"}) = 1 =>
        \A k \in KeysOf(OldS) \cap KeysOf(Incoming) :
            LET old == OldS.items[k]
                inc == Incoming.items[k]
            IN (old.t = "ref" /\ inc.t = "ref" /\ is_updatable(TypeOf(pre, old))) =>
                  /\ NewS.items[k] = old
                  /\ \A j \in KeysOf(pre[inc.v]) : heap[old.v].items[j] = pre[inc.v].items[j]

\* C3: an update of a View leaves its key set exactly as it was, so from
\* construction on every update keeps the construction key set; keys of the
\* incoming mapping that the View lacks are dropped without an error.
C3_ViewKeysFixed ==
    (last.op = "update" /\ OldS.kind = "View") =>
        /\ KeysOf(NewS) = KeysOf(OldS)
        /\ (last.arg.t = "ref" => last.err = "none")

C3_Witness ==
    /\ IsMappingCall("update")
    /\ OldS.kind = "View"
    /\ last.err = "none"
    /\ KeysOf(Incoming) \ KeysOf(OldS) # {}
    /\ KeysOf(OldS) # {}

\* C4: C = A | B leaves every object that existed before the call (A, B and
\* the nested values they hold) exactly as it was.
C4_OrLeavesOperands ==
    last.op = "or" => \A a \in Live : heap[a] = pre[a]

C4_Witness ==
    /\ IsMappingCall("or")
    /\ last.err = "none"
    /\ last.res = RAddr
    /\ heap[last.res].items # OldS.items
    /\ \E k \in Keys : OldS.items[k].t = "ref"
    /\ \E k \in Keys : Incoming.items[k].t = "ref"

\* C5: A | B, for A and B of the same class, is a container of A's class
\* whose contents are those A has after the in-place A.update(B).
C5_OrEqualsUpdate ==
    (IsMappingCall("or") /\ Incoming.kind = OldS.kind) =>
        /\ last.err = "none"
        /\ last.res # 0
        /\ heap[last.res].kind = OldS.kind
        /\ \A order \in Orders(KeysOf(Incoming)) :
              heap[last.res].items =
                  StateDict_update(pre, SAddr, last.arg, order).heap[SAddr].items

\* C6: after an update the key set contains every key it had before; for a
\* plain StateDict it also contains every key of the incoming mapping, and a
\* key that was absent holds the incoming value.
C6_KeysGrow ==
    IsMappingCall("update") =>
        /\ KeysOf(OldS) \subseteq KeysOf(NewS)
        /\ OldS.kind = "StateDict" =>
              /\ KeysOf(Incoming) \subseteq KeysOf(NewS)
              /\ \A k \in KeysOf(Incoming) \ KeysOf(OldS) : NewS.items[k] = Incoming.items[k]

C6_Witness ==
    /\ IsMappingCall("update")
    /\ OldS.kind = "StateDict"
    /\ KeysOf(Incoming) \ KeysOf(OldS) # {}
    /\ KeysOf(OldS) \ KeysOf(Incoming) # {}

\* C7: an update leaves every key of S that the incoming mapping lacks
\* present with the same value, the contents of a nested value included, and
\* the resulting heap is the same whatever order the incoming keys are
\* visited in.
C7_OtherKeysUntouched ==
    IsMappingCall("update") =>
        /\ \A k \in KeysOf(OldS) \ KeysOf(Incoming) :
              /\ NewS.items[k] = OldS.items[k]
              /\ OldS.items[k].t = "ref" => heap[OldS.items[k].v] = pre[OldS.items[k].v]
        /\ \A order \in Orders(KeysOf(Incoming)) :
              StateDict_update(pre, SAddr, last.arg, order).heap = heap

C7_Witness ==
    /\ IsMappingCall("update")
    /\ last.err = "none"
    /\ \E k \in KeysOf(OldS) \ KeysOf(Incoming) : OldS.items[k].t = "ref"
    /\ KeysOf(OldS) \cap KeysOf(Incoming) # {}

\* C8: push(item) appends exactly one element, item itself, to the end of
\* the log, for every item.
C8_PushAppendsItem ==
    last.op = "push" => (last.err = "none" /\ log = Append(prelog, item))

\* C9: no operation on a View leaves it holding a key it did not hold
\* before, so its key set never grows beyond the construction key set.
C9_ViewKeysPermanent ==
    NewS.kind = "View" => KeysOf(NewS) \subseteq KeysOf(OldS)

\* C10: update with an argument that is not a mapping raises TypeError and
\* leaves the whole heap as it was; update with a mapping raises nothing.
C10_BadArgRaises ==
    last.op = "update" =>
        /\ last.arg.t = "int" => (last.err = "TypeError" /\ heap = pre)
        /\ last.arg.t = "ref" => last.err = "none"

C10_Witness ==
    /\ last.op = "update"
    /\ last.arg.t = "int"
    /\ last.err = "TypeError"
    /\ KeysOf(NewS) # {}

====
